---- MODULE Spec2Model ----
(***************************************************************************)
(* A model of export.py: the wrapped detection model (Model.forward), the  *)
(* caption normalisation, the two inference drivers and the command-line   *)
(* dispatch.                                                               *)
(*                                                                         *)
(* Strings are sequences of one-character strings.  Scores are fixed-point *)
(* per-mille integers (0.35 is 350).  The underlying detector, the         *)
(* tokenizer's vocabulary and the drawing utility are external: the        *)
(* detector is a nondeterministic source of logits.                        *)
(***************************************************************************)
EXTENDS Integers, Sequences, FiniteSets, TLC

VARIABLES
    pc,             \* position of the running code
    args,           \* parsed command line: [test, orig]
    globals,        \* module-level names bound so far
    files,          \* files present in output_dir
    caption,        \* the caption string handed to preprocess_caption
    normalized,     \* preprocess_caption(caption)
    renormalized,   \* preprocess_caption(preprocess_caption(caption))
    input_ids,      \* tokenized["input_ids"][0]
    outputs,        \* what self.model(...) returned: pred_logits, pred_boxes
    box_threshold,
    text_threshold,
    ret,            \* the triple returned by Model.forward / session.run
    phrases,        \* the phrases list built by the decoding loop
    stages,         \* the stages this invocation has entered, in order
    error           \* "none" or the exception that ended the run

vars == <<pc, args, globals, files, caption, normalized, renormalized,
          input_ids, outputs, box_threshold, text_threshold, ret, phrases,
          stages, error>>

(***************************************************************************)
(* Bounds                                                                  *)
(***************************************************************************)
\* longest caption drawn for the checks of preprocess_caption
MaxLen == 4
\* most candidate boxes (queries) the detector returns in a forward check
MaxCand == 2
\* most token positions per candidate in a forward check
MaxTokens == 2
\* most candidate boxes the detector returns inside the drivers
MaxQueries == 1
\* padded positions the detector appends after the caption's tokens
PadLen == 1

(***************************************************************************)
(* Strings                                                                 *)
(***************************************************************************)
Alphabet == {"A", "a", " ", "."}

Upper == {"A", "B", "C", "D"}

IsSpace(c) == c \in {" ", "\t", "\n"}

LowerChar(c) ==
    CASE c = "A" -> "a"
      [] c = "B" -> "b"
      [] c = "C" -> "c"
      [] c = "D" -> "d"
      [] OTHER -> c

\* str.lower()
Lower(s) == [i \in 1..Len(s) |-> LowerChar(s[i])]

RECURSIVE LStrip(_)
LStrip(s) ==
    IF s # <<>> /\ IsSpace(Head(s)) THEN LStrip(Tail(s)) ELSE s

RECURSIVE RStrip(_)
RStrip(s) ==
    IF s # <<>> /\ IsSpace(s[Len(s)]) THEN RStrip(SubSeq(s, 1, Len(s) - 1)) ELSE s

\* str.strip()
Strip(s) == RStrip(LStrip(s))

\* str.endswith(c) for a one-character c
EndsWith(s, c) == s # <<>> /\ s[Len(s)] = c

AlwaysAppendPeriod(s) == Append(Strip(Lower(s)), ".")

KeepCase(s) ==
    LET result == Strip(s)
    IN  IF EndsWith(result, ".") THEN result ELSE Append(result, ".")

preprocess_caption(s) ==
    LET result == Strip(Lower(s))
    IN  IF EndsWith(result, ".") THEN result ELSE Append(result, ".")

RECURSIVE StringsUpTo(_)
StringsUpTo(n) ==
    IF n = 0 THEN {<<>>}
    ELSE LET shorter == StringsUpTo(n - 1)
         IN  shorter \cup {Append(s, c) : s \in shorter, c \in Alphabet}

(***************************************************************************)
(* Values the variables hold while a part of the program is not running    *)
(***************************************************************************)
NoArgs == [test |-> FALSE, orig |-> FALSE]
NoOutputs == [pred_logits |-> <<>>, pred_boxes |-> <<>>]
NoRet == [scores |-> <<>>, boxes |-> <<>>, masks |-> <<>>]

(***************************************************************************)
(* preprocess_caption on every caption up to MaxLen                        *)
(***************************************************************************)
InitCaption ==
    /\ pc = "caption"
    /\ caption \in StringsUpTo(MaxLen)
    /\ normalized = <<>>
    /\ renormalized = <<>>
    /\ args = NoArgs
    /\ globals = {}
    /\ files = {}
    /\ input_ids = <<>>
    /\ outputs = NoOutputs
    /\ box_threshold = 0
    /\ text_threshold = 0
    /\ ret = NoRet
    /\ phrases = <<>>
    /\ stages = <<>>
    /\ error = "none"

Normalize ==
    /\ pc = "caption"
    /\ normalized' = preprocess_caption(caption)
    /\ pc' = "normalized"
    /\ UNCHANGED <<args, globals, files, caption, renormalized, input_ids,
                   outputs, box_threshold, text_threshold, ret, phrases,
                   stages, error>>

NormalizeAgain ==
    /\ pc = "normalized"
    /\ renormalized' = preprocess_caption(normalized)
    /\ pc' = "renormalized"
    /\ UNCHANGED <<args, globals, files, caption, normalized, input_ids,
                   outputs, box_threshold, text_threshold, ret, phrases,
                   stages, error>>

NextCaption == Normalize \/ NormalizeAgain

SpecCaption == InitCaption /\ [][NextCaption]_vars

\* number of '.' characters at the end of s
RECURSIVE TrailingDots(_)
TrailingDots(s) ==
    IF EndsWith(s, ".") THEN 1 + TrailingDots(SubSeq(s, 1, Len(s) - 1)) ELSE 0

IsLowercase(s) == \A i \in 1..Len(s) : s[i] \notin Upper

NoOuterSpace(s) == s = <<>> \/ (~IsSpace(s[1]) /\ ~IsSpace(s[Len(s)]))

\* C8: normalising an already normalised caption yields the same string.
C8_Idempotent == pc = "renormalized" => renormalized = normalized

C8_Witness ==
    /\ pc = "renormalized"
    /\ normalized # caption
    /\ Len(normalized) > Len(caption)
    /\ \E i \in 1..Len(caption) : IsSpace(caption[i])

\* C9 as stated: the result is lowercase, has no outer whitespace and ends
\* with exactly one period.
C9_SinglePeriod ==
    pc = "normalized" =>
        /\ IsLowercase(normalized)
        /\ NoOuterSpace(normalized)
        /\ TrailingDots(normalized) = 1

\* C9 amended: the result is lowercase, has no outer whitespace and ends
\* with a period; it ends with two or more periods exactly when the input,
\* once its outer whitespace is removed, already did.
C9_EndsWithPeriod ==
    pc = "normalized" =>
        /\ IsLowercase(normalized)
        /\ NoOuterSpace(normalized)
        /\ TrailingDots(normalized) >= 1
        /\ (TrailingDots(normalized) >= 2 <=> TrailingDots(Strip(caption)) >= 2)
        /\ (TrailingDots(Strip(caption)) = 0 => TrailingDots(normalized) = 1)

C9_Witness ==
    /\ pc = "normalized"
    /\ TrailingDots(normalized) >= 2
    /\ \E i \in 1..Len(caption) : caption[i] \in Upper
    /\ IsSpace(caption[1])

(***************************************************************************)
(* Model.forward                                                           *)
(***************************************************************************)
\* Logits the detector is taken to produce: one that float32 sigmoid sends
\* to 0.0 (also the -inf of a padded position), a middling one, and one that
\* float32 sigmoid sends to 1.0.
LogitValues == {-200, 0, 200}

\* inside the drivers only the two saturating logits are drawn
DriverLogits == {-200, 200}

BoxThresholds == {0, 350, 1000}

TextThresholds == {0, 250}

\* torch.sigmoid in float32, in per-mille: exp(104) overflows the reciprocal
\* to 0.0 and 1 + exp(-18) rounds to 1.0
Sigmoid(x) ==
    CASE x <= -104 -> 0
      [] x = -2 -> 119
      [] x = -1 -> 269
      [] x = 0 -> 500
      [] x = 1 -> 731
      [] x = 2 -> 881
      [] x >= 18 -> 1000

Sigmoids(logits) ==
    [i \in 1..Len(logits) |-> [j \in 1..Len(logits[i]) |-> Sigmoid(logits[i][j])]]

RowFirst(row) == row[1]

\* tensor.max(dim=1)[0] for one row
RECURSIVE RowMax(_)
RowMax(row) ==
    IF Len(row) = 1 THEN row[1]
    ELSE LET m == RowMax(Tail(row))
         IN  IF Head(row) > m THEN Head(row) ELSE m

BoxMaskNonStrict(prediction_logits, bt) ==
    [i \in 1..Len(prediction_logits) |-> RowMax(prediction_logits[i]) >= bt]

\* prediction_logits.max(dim=1)[0] > box_threshold
BoxMask(prediction_logits, bt) ==
    [i \in 1..Len(prediction_logits) |-> RowMax(prediction_logits[i]) > bt]

RECURSIVE SelectByMaskReversed(_, _)
SelectByMaskReversed(t, mask) ==
    IF t = <<>> THEN <<>>
    ELSE SelectByMaskReversed(Tail(t), Tail(mask))
             \o (IF Head(mask) THEN <<Head(t)>> ELSE <<>>)

\* t[mask]: the rows of t whose mask entry is true, in order
RECURSIVE SelectByMask(_, _)
SelectByMask(t, mask) ==
    IF t = <<>> THEN <<>>
    ELSE (IF Head(mask) THEN <<Head(t)>> ELSE <<>>)
             \o SelectByMask(Tail(t), Tail(mask))

\* prediction_logits > text_threshold
TokenMask(prediction_logits, tt) ==
    [k \in 1..Len(prediction_logits) |->
        [j \in 1..Len(prediction_logits[k]) |-> prediction_logits[k][j] > tt]]

ForwardUnfilteredBoxes(out, bt, tt) ==
    LET prediction_logits == Sigmoids(out.pred_logits)
        mask == BoxMask(prediction_logits, bt)
        kept == SelectByMask(prediction_logits, mask)
    IN  [scores |-> [k \in 1..Len(kept) |-> RowMax(kept[k])],
         boxes  |-> out.pred_boxes,
         masks  |-> TokenMask(kept, tt)]

\* lines 42-50 of Model.forward, given what self.model returned
Forward(out, bt, tt) ==
    LET prediction_logits == Sigmoids(out.pred_logits)
        mask == BoxMask(prediction_logits, bt)
        kept == SelectByMask(prediction_logits, mask)
    IN  [scores |-> [k \in 1..Len(kept) |-> RowMax(kept[k])],
         boxes  |-> SelectByMask(out.pred_boxes, mask),
         masks  |-> TokenMask(kept, tt)]

\* What self.model can return for n candidates: every assignment of the
\* logits in `values` to the first w positions and a logit of -inf at the
\* pad positions after them.  A box is opaque and is written as the index
\* of its candidate.
DetectorOutputs(n, w, pad, values) ==
    {[pred_logits |-> [i \in 1..n |-> l[i] \o [j \in 1..pad |-> -200]],
      pred_boxes  |-> [i \in 1..n |-> i]] : l \in [1..n -> [1..w -> values]]}

InitForward ==
    /\ pc = "forward"
    /\ box_threshold \in BoxThresholds
    /\ text_threshold \in TextThresholds
    /\ outputs = NoOutputs
    /\ ret = NoRet
    /\ caption = <<>>
    /\ normalized = <<>>
    /\ renormalized = <<>>
    /\ args = NoArgs
    /\ globals = {}
    /\ files = {}
    /\ input_ids = <<>>
    /\ phrases = <<>>
    /\ stages = <<>>
    /\ error = "none"

\* lines 38-41: the call of the underlying detector
RunModel ==
    /\ pc = "forward"
    /\ \E n \in 1..MaxCand, w \in 1..MaxTokens :
          outputs' \in DetectorOutputs(n, w, 0, LogitValues)
    /\ pc' = "threshold"
    /\ UNCHANGED <<args, globals, files, caption, normalized, renormalized,
                   input_ids, box_threshold, text_threshold, ret, phrases,
                   stages, error>>

\* lines 42-50
Threshold ==
    /\ pc = "threshold"
    /\ ret' = Forward(outputs, box_threshold, text_threshold)
    /\ pc' = "returned"
    /\ UNCHANGED <<args, globals, files, caption, normalized, renormalized,
                   input_ids, outputs, box_threshold, text_threshold, phrases,
                   stages, error>>

NextForward == RunModel \/ Threshold

SpecForward == InitForward /\ [][NextForward]_vars

\* the raw candidates and their post-sigmoid scores, read off the state
NumCandidates == Len(outputs.pred_logits)

ScoreAt(i, j) == Sigmoid(outputs.pred_logits[i][j])

Positions(i) == 1..Len(outputs.pred_logits[i])

\* s is the largest score of candidate i
IsBestScore(i, s) ==
    /\ \E j \in Positions(i) : ScoreAt(i, j) = s
    /\ \A j \in Positions(i) : ScoreAt(i, j) <= s

Exceeding(bt) ==
    {i \in 1..NumCandidates : \E j \in Positions(i) : ScoreAt(i, j) > bt}

\* C1: the three outputs have the same number K of detections and
\* 0 <= K <= N, N the number of raw candidates.
C1_SameCount ==
    pc = "returned" =>
        /\ Len(ret.scores) = Len(ret.boxes)
        /\ Len(ret.boxes) = Len(ret.masks)
        /\ Len(ret.scores) >= 0
        /\ Len(ret.scores) <= NumCandidates

C1_Witness ==
    /\ pc = "returned"
    /\ Len(ret.scores) >= 1
    /\ Len(ret.scores) < NumCandidates

\* C2: a candidate is kept iff its largest score is strictly above the box
\* threshold; the kept ones come in their original order; the j-th score,
\* box and token mask belong to the j-th kept candidate, the score being
\* its largest.
C2_KeptIffAbove ==
    pc = "returned" =>
        /\ {ret.boxes[k] : k \in 1..Len(ret.boxes)} = Exceeding(box_threshold)
        /\ \A k \in 1..Len(ret.boxes) - 1 : ret.boxes[k] < ret.boxes[k + 1]
        /\ Len(ret.scores) = Len(ret.boxes)
        /\ Len(ret.masks) = Len(ret.boxes)
        /\ \A k \in 1..Len(ret.boxes) :
              /\ IsBestScore(ret.boxes[k], ret.scores[k])
              /\ DOMAIN ret.masks[k] = Positions(ret.boxes[k])
              /\ \A j \in Positions(ret.boxes[k]) :
                    ret.masks[k][j] = (ScoreAt(ret.boxes[k], j) > text_threshold)

C2_Witness ==
    /\ pc = "returned"
    /\ ret.boxes = <<2>>
    /\ \E j \in DOMAIN ret.masks[1] : ret.masks[1][j]
    /\ \E j \in DOMAIN ret.masks[1] : ~ret.masks[1][j]
    /\ \E i \in 1..NumCandidates :
          /\ i \notin Exceeding(box_threshold)
          /\ \E j \in Positions(i) : ScoreAt(i, j) = box_threshold

\* C3 as stated: with the box threshold at 0.0 every raw candidate is
\* returned.
C3_AllAtZero ==
    (pc = "returned" /\ box_threshold = 0) => Len(ret.scores) = NumCandidates

\* C3 amended: with the box threshold at 0.0 the detections are the
\* candidates that have a score above 0 at some position; a candidate whose
\* scores are 0 everywhere is dropped.
C3_PositiveAtZero ==
    (pc = "returned" /\ box_threshold = 0) =>
        /\ Len(ret.scores) = Cardinality(Exceeding(0))
        /\ \A i \in 1..NumCandidates :
              (\A j \in Positions(i) : ScoreAt(i, j) = 0)
                  => \A k \in 1..Len(ret.boxes) : ret.boxes[k] # i

C3_Witness ==
    /\ pc = "returned"
    /\ box_threshold = 0
    /\ Len(ret.scores) >= 1
    /\ Len(ret.scores) < NumCandidates

\* C4: with the box threshold at 1.0 no detection is returned.
C4_NoneAtOne ==
    (pc = "returned" /\ box_threshold = 1000) => Len(ret.scores) = 0

C4_Witness ==
    /\ pc = "returned"
    /\ box_threshold = 1000
    /\ \E i \in 1..NumCandidates : \E j \in Positions(i) : ScoreAt(i, j) = 1000
    /\ ret = NoRet

(***************************************************************************)
(* The tokenizer (external): BERT's uncased basic tokenisation, the        *)
(* [CLS] / [SEP] wrapping, and decode's join and clean-up                  *)
(***************************************************************************)
IsPunct(c) == c \in {".", ",", "?", "!"}

Flush(cur) == IF cur = <<>> THEN <<>> ELSE <<cur>>

\* whitespace separates words; a punctuation character is a word of its own
RECURSIVE Words(_, _)
Words(s, cur) ==
    IF s = <<>> THEN Flush(cur)
    ELSE IF IsSpace(Head(s)) THEN Flush(cur) \o Words(Tail(s), <<>>)
    ELSE IF IsPunct(Head(s)) THEN Flush(cur) \o <<<<Head(s)>>>> \o Words(Tail(s), <<>>)
    ELSE Words(Tail(s), Append(cur, Head(s)))

\* the vocabulary, on the words the captions use
TokenId(word) ==
    CASE word = <<".">> -> 1012
      [] word = <<"c", "a", "t">> -> 4937
      [] word = <<"d", "o", "g">> -> 3899
      [] OTHER -> 100

IdToken(id) ==
    CASE id = 101 -> <<"[", "C", "L", "S", "]">>
      [] id = 102 -> <<"[", "S", "E", "P", "]">>
      [] id = 1012 -> <<".">>
      [] id = 4937 -> <<"c", "a", "t">>
      [] id = 3899 -> <<"d", "o", "g">>
      [] OTHER -> <<"[", "U", "N", "K", "]">>

\* model.tokenizer(caption, padding="longest", return_tensors="pt")["input_ids"][0]
Tokenize(s) ==
    LET words == Words(Lower(s), <<>>)
    IN  <<101>> \o [i \in 1..Len(words) |-> TokenId(words[i])] \o <<102>>

RECURSIVE JoinTokens(_)
JoinTokens(ids) ==
    IF ids = <<>> THEN <<>>
    ELSE IF Len(ids) = 1 THEN IdToken(ids[1])
    ELSE IdToken(Head(ids)) \o <<" ">> \o JoinTokens(Tail(ids))

\* clean_up_tokenization: the space before a period is removed
RECURSIVE CleanUp(_)
CleanUp(s) ==
    IF Len(s) >= 2 /\ s[1] = " " /\ s[2] = "." THEN <<".">> \o CleanUp(SubSeq(s, 3, Len(s)))
    ELSE IF s = <<>> THEN <<>>
    ELSE <<Head(s)>> \o CleanUp(Tail(s))

\* model.tokenizer.decode(ids)
Decode(ids) == CleanUp(JoinTokens(ids))

NotPeriod(c) == c # "."

\* str.replace('.', '')
RemovePeriods(s) == SelectSeq(s, NotPeriod)

(***************************************************************************)
(* The phrase-decoding loop of inference and inference_onnx                *)
(***************************************************************************)
\* mask.nonzero(as_tuple=True)[0].tolist(), 1-based
RECURSIVE NonZeroFrom(_, _)
NonZeroFrom(mask, j) ==
    IF j > Len(mask) THEN <<>>
    ELSE (IF mask[j] THEN <<j>> ELSE <<>>) \o NonZeroFrom(mask, j + 1)

NonZero(mask) == NonZeroFrom(mask, 1)

LoopRaisesOnEmpty(masks, ids) ==
    \/ masks = <<>>
    \/ \E k \in 1..Len(masks) : \E j \in 1..Len(masks[k]) :
          masks[k][j] /\ j > Len(ids)

\* input_ids[i] raises IndexError for a true position outside input_ids
LoopRaises(masks, ids) ==
    \E k \in 1..Len(masks) : \E j \in 1..Len(masks[k]) :
        masks[k][j] /\ j > Len(ids)

PhraseOf(mask, ids) ==
    LET positions == NonZero(mask)
        prediction_token_ids == [p \in 1..Len(positions) |-> ids[positions[p]]]
    IN  RemovePeriods(Decode(prediction_token_ids))

DecodePhrases(masks, ids) == [k \in 1..Len(masks) |-> PhraseOf(masks[k], ids)]

(***************************************************************************)
(* The script: argument parsing, model construction, dispatch, the stages  *)
(***************************************************************************)
OnnxFile == "gdino.onnx"

Defs == {"Model", "preprocess_image", "preprocess_caption", "export_onnx",
         "inference", "inference_onnx"}

BindNothing(g) == g

\* line 191: model = Model(...) binds the module-level name
BindModel(g) == g \cup {"model"}

SelectStageOrigFirst(a) ==
    IF a.orig THEN "inference"
    ELSE IF a.test THEN "inference_onnx"
    ELSE "export_onnx"

\* lines 193-198
SelectStage(a) ==
    IF a.test THEN "inference_onnx"
    ELSE IF a.orig THEN "inference"
    ELSE "export_onnx"

EntryOf(stage) ==
    CASE stage = "inference_onnx" -> "onnx_session"
      [] stage = "inference" -> "inf_prepare"
      [] stage = "export_onnx" -> "export"

Init ==
    /\ pc = "parse_args"
    /\ args \in [test : BOOLEAN, orig : BOOLEAN]
    /\ files \in {{}, {OnnxFile}}
    /\ globals = Defs
    /\ caption = <<>>
    /\ normalized = <<>>
    /\ renormalized = <<>>
    /\ input_ids = <<>>
    /\ outputs = NoOutputs
    /\ box_threshold = 0
    /\ text_threshold = 0
    /\ ret = NoRet
    /\ phrases = <<>>
    /\ stages = <<>>
    /\ error = "none"

\* lines 170-181: both switches are plain store_true flags
ParseArgs ==
    /\ pc = "parse_args"
    /\ globals' = globals \cup {"parser", "args"}
    /\ pc' = "configure"
    /\ UNCHANGED <<args, files, caption, normalized, renormalized, input_ids,
                   outputs, box_threshold, text_threshold, ret, phrases,
                   stages, error>>

\* lines 184-189
Configure ==
    /\ pc = "configure"
    /\ globals' = globals \cup {"config_file", "checkpoint_path", "output_dir"}
    /\ pc' = "construct"
    /\ UNCHANGED <<args, files, caption, normalized, renormalized, input_ids,
                   outputs, box_threshold, text_threshold, ret, phrases,
                   stages, error>>

\* line 191
Construct ==
    /\ pc = "construct"
    /\ globals' = BindModel(globals)
    /\ pc' = "dispatch"
    /\ UNCHANGED <<args, files, caption, normalized, renormalized, input_ids,
                   outputs, box_threshold, text_threshold, ret, phrases,
                   stages, error>>

\* lines 193-198: inference and export_onnx are handed the global model
Dispatch ==
    /\ pc = "dispatch"
    /\ LET stage == SelectStage(args)
       IN  IF stage # "inference_onnx" /\ "model" \notin globals
           THEN /\ error' = "NameError"
                /\ pc' = "failed"
                /\ UNCHANGED stages
           ELSE /\ stages' = Append(stages, stage)
                /\ pc' = EntryOf(stage)
                /\ UNCHANGED error
    /\ UNCHANGED <<args, globals, files, caption, normalized, renormalized,
                   input_ids, outputs, box_threshold, text_threshold, ret,
                   phrases>>

\* lines 71-100
ExportOnnx ==
    /\ pc = "export"
    /\ caption' = <<"w", "a", "t", "e", "r", "m", "a", "r", "k">>
    /\ normalized' = preprocess_caption(caption')
    /\ box_threshold' = 350
    /\ text_threshold' = 250
    /\ files' = files \cup {OnnxFile}
    /\ pc' = "done"
    /\ UNCHANGED <<args, globals, renormalized, input_ids, outputs, ret,
                   phrases, stages, error>>

\* caption, tokens and thresholds of a driver; the tokenizer is
\* reached through a name that is bound or not (tokenizerBound)
PrepareInputs(text, tokenizerBound, next) ==
    /\ caption' = text
    /\ normalized' = preprocess_caption(text)
    /\ IF tokenizerBound
       THEN /\ input_ids' = Tokenize(normalized')
            /\ box_threshold' = 350
            /\ text_threshold' = 250
            /\ pc' = next
            /\ UNCHANGED error
       ELSE /\ error' = "NameError"
            /\ pc' = "failed"
            /\ UNCHANGED <<input_ids, box_threshold, text_threshold>>
    /\ UNCHANGED <<args, globals, files, renormalized, outputs, ret, phrases,
                   stages>>

\* one forward pass on the prepared inputs
RunDetector(next) ==
    /\ \E n \in 1..MaxQueries :
          outputs' \in DetectorOutputs(n, Len(input_ids), PadLen, DriverLogits)
    /\ ret' = Forward(outputs', box_threshold, text_threshold)
    /\ pc' = next
    /\ UNCHANGED <<args, globals, files, caption, normalized, renormalized,
                   input_ids, box_threshold, text_threshold, phrases, stages,
                   error>>

DecodeLoop(next) ==
    /\ IF LoopRaises(ret.masks, input_ids)
       THEN /\ error' = "IndexError"
            /\ pc' = "failed"
            /\ UNCHANGED phrases
       ELSE /\ phrases' = DecodePhrases(ret.masks, input_ids)
            /\ pc' = next
            /\ UNCHANGED error
    /\ UNCHANGED <<args, globals, files, caption, normalized, renormalized,
                   input_ids, outputs, box_threshold, text_threshold, ret,
                   stages>>

Step(next) ==
    /\ pc' = next
    /\ UNCHANGED <<args, globals, files, caption, normalized, renormalized,
                   input_ids, outputs, box_threshold, text_threshold, ret,
                   phrases, stages, error>>

\* inference: lines 103-108
InfPrepare ==
    /\ pc = "inf_prepare"
    /\ PrepareInputs(<<"c", "a", "t", " ", ".", " ", "d", "o", "g">>, TRUE,
                     "inf_forward")

\* lines 110-117
InfForward == pc = "inf_forward" /\ RunDetector("inf_decode")

\* lines 119-123
InfDecode == pc = "inf_decode" /\ DecodeLoop("inf_annotate")

\* lines 125-127
InfAnnotate == pc = "inf_annotate" /\ Step("inf_show")

\* lines 129-131
InfShow == pc = "inf_show" /\ Step("done")

\* inference_onnx: lines 134-135, the session needs the exported file
OnnxSession ==
    /\ pc = "onnx_session"
    /\ IF OnnxFile \in files
       THEN pc' = "onnx_prepare" /\ UNCHANGED error
       ELSE pc' = "failed" /\ error' = "NoSuchFile"
    /\ UNCHANGED <<args, globals, files, caption, normalized, renormalized,
                   input_ids, outputs, box_threshold, text_threshold, ret,
                   phrases, stages>>

\* lines 137-142: model.tokenizer is looked up in the module's globals
OnnxPrepare ==
    /\ pc = "onnx_prepare"
    /\ PrepareInputs(<<"d", "o", "g", ".", "c", "a", "t">>, "model" \in globals,
                     "onnx_run")

\* lines 144-153: the exported graph computes what forward computes
OnnxRun == pc = "onnx_run" /\ RunDetector("onnx_decode")

\* lines 155-159
OnnxDecode == pc = "onnx_decode" /\ DecodeLoop("onnx_annotate")

\* lines 161-163
OnnxAnnotate == pc = "onnx_annotate" /\ Step("onnx_show")

\* lines 165-167
OnnxShow == pc = "onnx_show" /\ Step("done")

Next ==
    \/ ParseArgs \/ Configure \/ Construct \/ Dispatch \/ ExportOnnx
    \/ InfPrepare \/ InfForward \/ InfDecode \/ InfAnnotate \/ InfShow
    \/ OnnxSession \/ OnnxPrepare \/ OnnxRun \/ OnnxDecode \/ OnnxAnnotate
    \/ OnnxShow

Spec == Init /\ [][Next]_vars

(***************************************************************************)
(* Properties of the script                                                *)
(***************************************************************************)
BeforeStage == {"parse_args", "configure", "construct", "dispatch"}

AfterRun == {"inf_decode", "inf_annotate", "inf_show", "onnx_decode",
             "onnx_annotate", "onnx_show", "done"}

TruePositions(mask) == {j \in 1..Len(mask) : mask[j]}

\* C5: when no candidate exceeds the box threshold the three outputs are
\* empty, nothing is raised, and the decoding loop of either driver ends
\* with an empty phrase list on the way to annotate.
C5_EmptyHandled ==
    (outputs # NoOutputs /\ Exceeding(box_threshold) = {}) =>
        /\ ret.scores = <<>>
        /\ ret.boxes = <<>>
        /\ ret.masks = <<>>
        /\ error = "none"
        /\ pc \in AfterRun
        /\ phrases = <<>>

C5_Witness ==
    /\ pc = "onnx_annotate"
    /\ outputs # NoOutputs
    /\ Exceeding(box_threshold) = {}
    /\ \E j \in Positions(1) : ScoreAt(1, j) = 0
    /\ ret.masks = <<>>
    /\ phrases = <<>>

\* C6: each phrase is decoded from the caption's token ids at the true
\* positions of its detection's mask, in order, periods removed; for the
\* caption "cat . dog" every phrase is made of the words cat and dog only,
\* and every true position indexes input_ids.
C6_OnlyCaptionWords ==
    (pc = "inf_annotate" /\ error = "none") =>
        \A k \in 1..Len(ret.masks) :
            /\ \A j \in TruePositions(ret.masks[k]) : j <= Len(input_ids)
            /\ k <= Len(phrases)
            /\ \A i \in 1..Len(phrases[k]) : phrases[k][i] # "."
            /\ LET words == Words(phrases[k], <<>>)
               IN  \A w \in 1..Len(words) :
                      words[w] \in {<<"c", "a", "t">>, <<"d", "o", "g">>}

\* C7 as stated: at most one stage runs, giving both switches is rejected,
\* and giving neither exports only.
C7_Exclusive ==
    /\ Len(stages) <= 1
    /\ (args.test /\ args.orig /\ pc # "parse_args") =>
           (error # "none" /\ stages = <<>>)
    /\ (~args.test /\ ~args.orig /\ pc \notin BeforeStage) =>
           stages = <<"export_onnx">>

\* C7 amended: at most one stage runs; giving both switches is accepted and
\* runs the exported-graph validation alone (--test takes precedence);
\* giving neither exports only.
C7_TestWins ==
    /\ Len(stages) <= 1
    /\ (args.test /\ args.orig /\ pc = "configure") => error = "none"
    /\ (args.test /\ args.orig /\ pc \notin BeforeStage) =>
           stages = <<"inference_onnx">>
    /\ (~args.test /\ ~args.orig /\ pc \notin BeforeStage) =>
           stages = <<"export_onnx">>

C7_Witness ==
    /\ args.test
    /\ args.orig
    /\ pc = "onnx_run"
    /\ stages = <<"inference_onnx">>

\* C10 as stated: in --test mode the name through which inference_onnx
\* reaches the tokenizer is unbound when it is used, so the run never gets
\* to the session run.
C10_FailsAtTokenizer ==
    args.test =>
        /\ pc = "onnx_prepare" => "model" \notin globals
        /\ pc \notin {"onnx_run", "onnx_decode", "onnx_annotate", "onnx_show"}

\* C10 amended: in --test mode the name model is bound at module level
\* before the dispatch, so the tokenizer reference in inference_onnx
\* resolves and no NameError ends the run.
C10_TokenizerBound ==
    args.test =>
        /\ pc = "onnx_prepare" => "model" \in globals
        /\ error # "NameError"
        /\ pc \in {"onnx_run", "onnx_decode", "onnx_annotate", "onnx_show"} =>
               input_ids = Tokenize(normalized)

C10_Witness ==
    /\ args.test
    /\ ~args.orig
    /\ pc = "onnx_run"
    /\ "model" \in globals
    /\ Len(input_ids) = 6

====
